---- MODULE Spec2Model ----
(***************************************************************************)
(* Model of TypeormStore (src/src/app/TypeormStore/TypeormStore.ts): a     *)
(* session store on a TypeORM repository.  The store's public operations   *)
(* are async functions; every `await` of a repository statement is a       *)
(* suspension point, so an operation is a call step (the synchronous code  *)
(* up to the first await, which also builds the statement and evaluates    *)
(* Date.now()) followed by one step per repository statement.              *)
(*                                                                         *)
(* The repository (TypeORM, a library) is the session table: a row per id  *)
(* with json, expiredAt and the soft-delete column destroyedAt.  A select  *)
(* query builder adds "destroyedAt IS NULL" unless withDeleted is set;     *)
(* update, soft-delete and delete builders add nothing to their WHERE.     *)
(* Any statement can fail (connectivity); an insert of an existing primary *)
(* key fails.                                                              *)
(***************************************************************************)
EXTENDS Integers, Sequences, FiniteSets, TLC

\* ---------------------------------------------------------------- bounds
\* The clock runs from 0 to MaxTicks seconds, one second per Tick.
MaxTicks == 1
\* The largest cleanupLimit a store is configured with.
MaxLimit == 1
\* Operations the callers start, all in all.
MaxCalls == 2
\* Seconds a timestamp can lie behind the clock, where the clock never stops.
Past == 1

\* ------------------------------------------------------------- constants
oneDay == 86400

\* SQL NULL in the destroyedAt column.
NULL == -1

\* An option the constructor was not given.
Undefined == -1

\* The value of `calls` when operations are not counted.
Uncounted == 0 - 1

Procs == {1, 2}

\* Session ids, as sequences of characters.  The second one holds the two
\* characters cleanup's escaping rewrites.
Ids == { <<"a">>, <<"'", "\\">> }

\* The `sid` argument getTTL receives from touch (none).
NoSid == <<>>

\* ------------------------------------------------------------- sessions
\* Session data handed to set and touch.  A session is a record; a key that
\* is absent from the object is absent from the record.  `self` marks an
\* object that refers to itself, which JSON.stringify rejects.
EmptyObj == [k \in {} |-> 0]

Sessions ==
  { [cookie |-> EmptyObj, val |-> 1],
    [cookie |-> [maxAge |-> 1500], val |-> 2],
    [val |-> 3],
    [cookie |-> EmptyObj, val |-> 1, self |-> TRUE] }

Serializable(sess) == "self" \notin DOMAIN sess

\* JSON text is a sequence of tokens.
Tok(k, n) == [k |-> k, n |-> n]

StringifyCookie(c) ==
  IF "maxAge" \in DOMAIN c
    THEN << Tok("{", 0), Tok("maxAge", 0), Tok("num", c.maxAge), Tok("}", 0) >>
    ELSE << Tok("{", 0), Tok("}", 0) >>

\* JSON.stringify(session): keys in insertion order, absent keys omitted.
Stringify(sess) ==
  << Tok("{", 0) >>
    \o (IF "cookie" \in DOMAIN sess
          THEN << Tok("cookie", 0) >> \o StringifyCookie(sess.cookie)
          ELSE << >>)
    \o (IF "val" \in DOMAIN sess
          THEN << Tok("val", 0), Tok("num", sess.val) >>
          ELSE << >>)
    \o << Tok("}", 0) >>

\* Index of the first token of kind k in json at or after position i, or 0.
RECURSIVE FindTok(_, _, _)
FindTok(json, k, i) ==
  IF i > Len(json) THEN 0
  ELSE IF json[i].k = k THEN i
  ELSE FindTok(json, k, i + 1)

\* JSON.parse(json) of a text Stringify wrote.
Parse(json) ==
  LET c == FindTok(json, "cookie", 1)
      m == FindTok(json, "maxAge", 1)
      v == FindTok(json, "val", 1)
      cookie == IF m = 0 THEN EmptyObj ELSE [maxAge |-> json[m + 1].n]
  IN  IF c # 0 /\ v # 0 THEN [cookie |-> cookie, val |-> json[v + 1].n]
      ELSE IF c # 0 THEN [cookie |-> cookie]
      ELSE IF v # 0 THEN [val |-> json[v + 1].n]
      ELSE EmptyObj

\* { id: session.id, ...sessionData }: the keys of the payload come last
\* and win over `id`.
WithId(id, data) ==
  [k \in DOMAIN data \cup {"id"} |-> IF k \in DOMAIN data THEN data[k] ELSE id]

\* ------------------------------------------------------------ escaping
\* s.replace(/ch/g, rep) on a sequence of characters.
RECURSIVE ReplaceAll(_, _, _)
ReplaceAll(s, ch, rep) ==
  IF s = << >> THEN << >>
  ELSE (IF Head(s) = ch THEN rep ELSE << Head(s) >>) \o ReplaceAll(Tail(s), ch, rep)

\* The literal cleanup writes for a string id in enumerated mode.
Escape(id) ==
  << "'" >>
    \o ReplaceAll(ReplaceAll(id, "\\", << "\\", "\\" >>), "'", << "\\", "'" >>)
    \o << "'" >>

\* The string a quoted literal denotes to the database: a backslash makes
\* the next character literal.
RECURSIVE Unescape(_)
Unescape(s) ==
  IF s = << >> THEN << >>
  ELSE IF Head(s) = "\\" /\ Len(s) >= 2
         THEN << s[2] >> \o Unescape(Tail(Tail(s)))
         ELSE << Head(s) >> \o Unescape(Tail(s))

Unquote(lit) == Unescape(SubSeq(lit, 2, Len(lit) - 1))

\* ----------------------------------------------------------------- state
VARIABLES
  connected,  \* this.repository is set
  cfg,        \* the options the constructor captured
  now,        \* Date.now(), in milliseconds
  rows,       \* the session table: id -> [json, expiredAt, destroyedAt]
  pc,         \* per caller: the statement its operation awaits, or "idle"
  call,       \* per caller: the locals of the operation in flight
  res,        \* what the step just taken reported to its caller, if anything
  calls       \* operations started so far

vars == << connected, cfg, now, rows, pc, call, res, calls >>

\* The constructor's options.  ttl is a number, a function or undefined.
TtlOptions ==
  { [kind |-> "undefined", n |-> 0],
    [kind |-> "number", n |-> 2],
    [kind |-> "function", n |-> 0] }

\* cleanupLimit and limitSubquery: cleanup disabled (by default, with the
\* default mode, or by 0, in enumerated mode) or a limit in either mode.
CleanupOptions ==
  { [cleanupLimit |-> Undefined, limitSubquery |-> TRUE],
    [cleanupLimit |-> 0, limitSubquery |-> FALSE] }
    \cup [ cleanupLimit : 1 .. MaxLimit, limitSubquery : BOOLEAN ]

Configs ==
  { [ ttl |-> t, cleanupLimit |-> c.cleanupLimit, limitSubquery |-> c.limitSubquery,
      onError |-> e ] : t \in TtlOptions, c \in CleanupOptions, e \in BOOLEAN }

\* A ttl function a host configures: one second, two when given the sid.
ttlFunction(sess, sid) == IF sid = NoSid THEN 1 ELSE 2

\* A getTTL that looks at the cookie first and at the configured ttl only
\* for a cookie without maxAge: the resolution order must tell it from
\* getTTL.
getTTLCookieFirst(sess, sid) ==
  IF "cookie" \in DOMAIN sess /\ "maxAge" \in DOMAIN sess.cookie
    THEN [ok |-> TRUE, v |-> sess.cookie.maxAge \div 1000]
  ELSE IF cfg.ttl.kind = "number" THEN [ok |-> TRUE, v |-> cfg.ttl.n]
  ELSE IF cfg.ttl.kind = "function" THEN [ok |-> TRUE, v |-> ttlFunction(sess, sid)]
  ELSE IF "cookie" \notin DOMAIN sess THEN [ok |-> FALSE, v |-> 0]
  ELSE [ok |-> TRUE, v |-> oneDay]

\* getTTL: [ok, v]; ok is FALSE when reading sess.cookie.maxAge throws
\* because sess.cookie is undefined.
getTTL(sess, sid) ==
  IF cfg.ttl.kind = "number" THEN [ok |-> TRUE, v |-> cfg.ttl.n]
  ELSE IF cfg.ttl.kind = "function" THEN [ok |-> TRUE, v |-> ttlFunction(sess, sid)]
  ELSE IF "cookie" \notin DOMAIN sess THEN [ok |-> FALSE, v |-> 0]
  ELSE IF "maxAge" \in DOMAIN sess.cookie
         THEN [ok |-> TRUE, v |-> sess.cookie.maxAge \div 1000]
         ELSE [ok |-> TRUE, v |-> oneDay]

IdleCall ==
  [ op |-> "none", sid |-> NoSid, sids |-> {}, sess |-> EmptyObj, json |-> << >>,
    ttl |-> 0, t |-> 0, ids |-> {}, pending |-> {}, reported |-> FALSE,
    issued |-> {}, purged |-> 0, pre |-> "absent" ]

\* A report: the operation and its arguments, the failure if any (err), what
\* the callback was given (cb, and has/data or list), the secondary channel
\* the failure went to (chan), and the locals the operation ended with.
NoRes ==
  [ op |-> "none", sid |-> NoSid, sids |-> {}, sess |-> EmptyObj, err |-> "none",
    cb |-> "none", chan |-> "none", has |-> FALSE, data |-> EmptyObj, list |-> {},
    ttl |-> 0, t |-> 0, issued |-> {}, purged |-> 0, pre |-> "absent" ]

\* The table outlives the store: at construction it is empty, or holds the
\* live row an earlier process wrote with one second left to live.
StoredRow ==
  [ json |-> Stringify([cookie |-> [maxAge |-> 1500], val |-> 2]),
    expiredAt |-> 1000, destroyedAt |-> NULL ]

Tables == { [i \in S |-> StoredRow] : S \in { {}, { << "'", "\\" >> } } }

\* The state after the constructor ran with one of the options in C, at
\* clock value t.
Constructed(C, t) ==
  /\ connected = FALSE
  /\ cfg \in C
  /\ now = t
  /\ rows \in Tables
  /\ pc = [p \in Procs |-> "idle"]
  /\ call = [p \in Procs |-> IdleCall]
  /\ res = NoRes

Init == Constructed(Configs, 0) /\ calls = 0

\* ------------------------------------------------------------ repository
\* A query that also gives soft-deleted rows, as a select with withDeleted
\* would: the reads must tell it from createQueryBuilder.
createQueryBuilderWithDeleted(t) == { i \in DOMAIN rows : rows[i].expiredAt > t }

\* createQueryBuilder("session").where("session.expiredAt > :expiredAt"):
\* a select, so soft-deleted rows are left out as well.
createQueryBuilder(t) ==
  { i \in DOMAIN rows : rows[i].expiredAt > t /\ rows[i].destroyedAt = NULL }

\* A cleanup select without withDeleted, which passes soft-deleted rows
\* over: reclamation must tell it from ExpiredIds.
ExpiredLiveIds(t) ==
  { i \in DOMAIN rows : rows[i].expiredAt <= t /\ rows[i].destroyedAt = NULL }

\* cleanup's select: withDeleted, expiredAt <= the Date.now() in its text.
ExpiredIds(t) == { i \in DOMAIN rows : rows[i].expiredAt <= t }

Min(a, b) == IF a <= b THEN a ELSE b

\* A select whose LIMIT is lost: the bound on a cleanup must tell it from
\* Limit.
NoLimit(S, n) == { S }

\* The results "LIMIT n" can give for a query matching the ids in S.
Limit(S, n) == { xs \in SUBSET S : Cardinality(xs) = Min(n, Cardinality(S)) }

\* The table without the rows whose id is in xs.
DeleteIds(xs) == [i \in DOMAIN rows \ xs |-> rows[i]]

\* handleError: the secondary channel a failure is forwarded to.
handleError == IF cfg.onError THEN "onError" ELSE "disconnect"

\* The operation of caller p ends and reports r.
Done(p, r) ==
  /\ pc' = [pc EXCEPT ![p] = "idle"]
  /\ call' = [call EXCEPT ![p] = IdleCall]
  /\ res' = r

\* The operation of caller p awaits statement s with locals c.
Await(p, s, c) ==
  /\ pc' = [pc EXCEPT ![p] = s]
  /\ call' = [call EXCEPT ![p] = c]
  /\ res' = NoRes

\* The report of an operation whose failure the catch block handled.
Caught(c, e) ==
  [NoRes EXCEPT !.op = c.op, !.sid = c.sid, !.sids = c.sids, !.sess = c.sess, !.err = e, !.cb = "err",
                !.chan = handleError, !.ttl = c.ttl, !.t = c.t,
                !.issued = c.issued, !.purged = c.purged, !.pre = c.pre]

\* The report of an operation that succeeded.
Ok(c) ==
  [NoRes EXCEPT !.op = c.op, !.sid = c.sid, !.sids = c.sids, !.sess = c.sess, !.cb = "ok",
                !.ttl = c.ttl, !.t = c.t, !.issued = c.issued, !.purged = c.purged,
                !.pre = c.pre]

\* What the table holds for sid: "absent", "live" or "destroyed".
RowState(sid) ==
  IF sid \notin DOMAIN rows THEN "absent"
  ELSE IF rows[sid].destroyedAt = NULL THEN "live"
  ELSE "destroyed"

\* A caller starts an operation: one more of the MaxCalls, unless the
\* specification leaves the operations uncounted.
Started ==
  IF calls = Uncounted THEN UNCHANGED calls
  ELSE calls < MaxCalls /\ calls' = calls + 1

\* A new call record for operation op.
NewCall(op, sid, sess) == [IdleCall EXCEPT !.op = op, !.sid = sid, !.sess = sess]

\* ------------------------------------------------------------ operations
connect ==
  /\ connected' = TRUE
  /\ UNCHANGED << cfg, now, rows, pc, call, res, calls >>

\* The wall clock advances by one second.
Tick ==
  /\ now < MaxTicks * 1000
  /\ now' = now + 1000
  /\ UNCHANGED << connected, cfg, rows, pc, call, res, calls >>

\* get(sid): the call builds the query (getRepository, Date.now()).
GetCall(p, sid) ==
  /\ pc[p] = "idle"
  /\ Started
  /\ LET c == NewCall("get", sid, EmptyObj) IN
       IF ~connected
         THEN Done(p, Caught(c, "NotConnected"))
         ELSE Await(p, "getOne", [c EXCEPT !.t = now, !.issued = {"getOne"}])
  /\ UNCHANGED << connected, cfg, now, rows >>

\* What get reports when getOne() answers: callback() for no row, else
\* callback(undefined, JSON.parse(session.json)).
GetAnswer(c) ==
  IF c.sid \in createQueryBuilder(c.t)
    THEN [Ok(c) EXCEPT !.has = TRUE, !.data = Parse(rows[c.sid].json)]
    ELSE Ok(c)

\* get(sid): getOne() answers, or fails.
GetOne(p) ==
  /\ pc[p] = "getOne"
  /\ LET c == call[p] IN
       \/ Done(p, Caught(c, "Storage"))
       \/ Done(p, GetAnswer(c))
  /\ UNCHANGED << connected, cfg, now, rows, calls >>

\* A cleanup that only an undefined cleanupLimit disables, and that 0 does
\* not: the frame of a set without cleanup must tell it from CleanupCall.
CleanupUnlessUndefined(p, c) ==
  IF cfg.cleanupLimit = Undefined
    THEN Await(p, "findOneOrFail", [c EXCEPT !.issued = @ \cup {"findOneOrFail"}])
    ELSE IF cfg.limitSubquery
      THEN Await(p, "cleanupDelete", [c EXCEPT !.t = now, !.issued = @ \cup {"cleanupDelete"}])
      ELSE Await(p, "cleanupSelect", [c EXCEPT !.t = now, !.issued = @ \cup {"cleanupSelect"}])

\* cleanup(), up to its first await: nothing when cleanupLimit is falsy,
\* else the select is built with Date.now() in its text; with limitSubquery
\* its text goes into the delete, without it the select is run first.
CleanupCall(p, c) ==
  IF cfg.cleanupLimit \in {0, Undefined}
    THEN Await(p, "findOneOrFail", [c EXCEPT !.issued = @ \cup {"findOneOrFail"}])
    ELSE IF cfg.limitSubquery
      THEN Await(p, "cleanupDelete", [c EXCEPT !.t = now, !.issued = @ \cup {"cleanupDelete"}])
      ELSE Await(p, "cleanupSelect", [c EXCEPT !.t = now, !.issued = @ \cup {"cleanupSelect"}])

\* set(sid, session), up to its first await.  `pre` is not a local of the
\* code: it notes what the table held for sid when set was called, for the
\* properties that speak of a set "after destroy".
SetCall(p, sid, sess) ==
  /\ pc[p] = "idle"
  /\ Started
  /\ LET c == [NewCall("set", sid, sess) EXCEPT !.pre = RowState(sid)]
         ttl == getTTL(sess, sid)
     IN  IF ~connected
           THEN Done(p, Caught(c, "NotConnected"))
         ELSE IF ~Serializable(sess)
           THEN Done(p, [Caught(c, "Serialization") EXCEPT !.chan = "none"])
         ELSE IF ~ttl.ok
           THEN Done(p, Caught(c, "TypeError"))
         ELSE CleanupCall(p, [c EXCEPT !.json = Stringify(sess), !.ttl = ttl.v])
  /\ UNCHANGED << connected, cfg, now, rows >>

\* cleanup() in enumerated mode: getMany() answers at most cleanupLimit
\* expired rows, or fails.  No delete is built for an empty answer.
CleanupSelect(p) ==
  /\ pc[p] = "cleanupSelect"
  /\ LET c == call[p] IN
       \/ Done(p, Caught(c, "Storage"))
       \/ \E xs \in Limit(ExpiredIds(c.t), cfg.cleanupLimit) :
            IF xs = {}
              THEN Await(p, "findOneOrFail", [c EXCEPT !.issued = @ \cup {"findOneOrFail"}])
              ELSE Await(p, "cleanupDelete",
                         [c EXCEPT !.ids = { Escape(x) : x \in xs },
                                   !.issued = @ \cup {"cleanupDelete"}])
  /\ UNCHANGED << connected, cfg, now, rows, calls >>

\* The ids "DELETE ... WHERE id IN (ids)" can match: the literals listed, or
\* what the embedded select gives when the delete runs.
CleanupTargets(c) ==
  IF cfg.limitSubquery
    THEN Limit(ExpiredIds(c.t), cfg.cleanupLimit)
    ELSE { { Unquote(l) : l \in c.ids } \cap DOMAIN rows }

\* A set that goes on to its lookup when the cleanup delete fails: the
\* abort of set must tell it from CleanupDelete.
CleanupDeleteIgnoringFailure(p) ==
  /\ pc[p] = "cleanupDelete"
  /\ LET c == call[p] IN
       \/ /\ UNCHANGED rows
          /\ Await(p, "findOneOrFail", [c EXCEPT !.issued = @ \cup {"findOneOrFail"}])
       \/ \E xs \in CleanupTargets(c) :
            /\ rows' = DeleteIds(xs)
            /\ Await(p, "findOneOrFail",
                     [c EXCEPT !.purged = @ + Cardinality(xs),
                               !.issued = @ \cup {"findOneOrFail"}])
  /\ UNCHANGED << connected, cfg, now, calls >>

\* cleanup(): the delete runs, or fails.
CleanupDelete(p) ==
  /\ pc[p] = "cleanupDelete"
  /\ LET c == call[p] IN
       \/ Done(p, Caught(c, "Storage")) /\ UNCHANGED rows
       \/ \E xs \in CleanupTargets(c) :
            /\ rows' = DeleteIds(xs)
            /\ Await(p, "findOneOrFail",
                     [c EXCEPT !.purged = @ + Cardinality(xs),
                               !.issued = @ \cup {"findOneOrFail"}])
  /\ UNCHANGED << connected, cfg, now, calls >>

\* set: findOneOrFail({ where: { id }, withDeleted: true }).  A row found
\* leads to the update; no row, or a failed lookup, to the catch's insert.
\* Either statement is built with Date.now() of that moment.
FindOneOrFail(p) ==
  /\ pc[p] = "findOneOrFail"
  /\ LET c == call[p] IN
       \/ Await(p, "insert", [c EXCEPT !.t = now, !.issued = @ \cup {"insert"}])
       \/ /\ c.sid \in DOMAIN rows
          /\ Await(p, "update", [c EXCEPT !.t = now, !.issued = @ \cup {"update"}])
       \/ /\ c.sid \notin DOMAIN rows
          /\ Await(p, "insert", [c EXCEPT !.t = now, !.issued = @ \cup {"insert"}])
  /\ UNCHANGED << connected, cfg, now, rows, calls >>

\* An update by id alone, without the destroyedAt predicate: the guard of
\* set's update must tell it from UpdateLive.
UpdateAny(c) ==
  [i \in DOMAIN rows |->
     IF i = c.sid
       THEN [rows[i] EXCEPT !.expiredAt = c.t + c.ttl * 1000, !.json = c.json]
       ELSE rows[i]]

\* The table after update({ destroyedAt: IsNull(), id }, { expiredAt, json }).
UpdateLive(c) ==
  [i \in DOMAIN rows |->
     IF i = c.sid /\ rows[i].destroyedAt = NULL
       THEN [rows[i] EXCEPT !.expiredAt = c.t + c.ttl * 1000, !.json = c.json]
       ELSE rows[i]]

\* set: the update runs (on zero rows or one) and set reports success, or
\* it fails and the catch builds the insert.
Update(p) ==
  /\ pc[p] = "update"
  /\ LET c == call[p] IN
       \/ /\ Await(p, "insert", [c EXCEPT !.t = now, !.issued = @ \cup {"insert"}])
          /\ UNCHANGED rows
       \/ /\ rows' = UpdateLive(c)
          /\ Done(p, Ok(c))
  /\ UNCHANGED << connected, cfg, now, calls >>

\* The table after insert({ expiredAt, id, json }).
InsertRow(c) ==
  [i \in DOMAIN rows \cup {c.sid} |->
     IF i = c.sid
       THEN [json |-> c.json, expiredAt |-> c.t + c.ttl * 1000, destroyedAt |-> NULL]
       ELSE rows[i]]

\* set: the insert runs, or fails; it fails on an id the table holds.
Insert(p) ==
  /\ pc[p] = "insert"
  /\ LET c == call[p] IN
       \/ Done(p, Caught(c, "Storage")) /\ UNCHANGED rows
       \/ IF c.sid \in DOMAIN rows
            THEN Done(p, Caught(c, "Duplicate")) /\ UNCHANGED rows
            ELSE rows' = InsertRow(c) /\ Done(p, Ok(c))
  /\ UNCHANGED << connected, cfg, now, calls >>

\* destroy(sid | sid[]): one softDelete per id is issued at once.
DestroyCall(p, sids) ==
  /\ pc[p] = "idle"
  /\ Started
  /\ LET c == [NewCall("destroy", NoSid, EmptyObj) EXCEPT !.sids = sids, !.pending = sids] IN
       IF ~connected
         THEN Done(p, Caught(c, "NotConnected"))
         ELSE Await(p, "softDelete", [c EXCEPT !.issued = {"softDelete"}])
  /\ UNCHANGED << connected, cfg, now, rows >>

\* A destroy that deletes the row: the frame of destroy must tell it from
\* SoftDeleteRow.
HardDeleteRow(x) == DeleteIds({x})

\* The table after softDelete({ id: x }).
SoftDeleteRow(x) ==
  [i \in DOMAIN rows |->
     IF i = x THEN [rows[i] EXCEPT !.destroyedAt = now] ELSE rows[i]]

\* destroy: one of its softDeletes runs, or fails.  Promise.all rejects at
\* the first failure and resolves when all have run.
SoftDelete(p, x) ==
  /\ pc[p] = "softDelete"
  /\ x \in call[p].pending
  /\ LET c == call[p]
         left == c.pending \ {x}
         more == IF left = {} THEN "idle" ELSE "softDelete"
     IN  \/ /\ UNCHANGED rows
            /\ pc' = [pc EXCEPT ![p] = more]
            /\ call' = [call EXCEPT ![p] =
                          IF left = {} THEN IdleCall
                          ELSE [c EXCEPT !.pending = left, !.reported = TRUE]]
            /\ res' = IF c.reported THEN NoRes
                       ELSE Caught(c, "Storage")
         \/ /\ rows' = SoftDeleteRow(x)
            /\ pc' = [pc EXCEPT ![p] = more]
            /\ call' = [call EXCEPT ![p] =
                          IF left = {} THEN IdleCall ELSE [c EXCEPT !.pending = left]]
            /\ res' = IF left = {} /\ ~c.reported
                         THEN Ok(c) ELSE NoRes
  /\ UNCHANGED << connected, cfg, now, calls >>

\* touch(sid, session), up to its await: getTTL(session) without the sid,
\* then getRepository, then the update is built with Date.now().
TouchCall(p, sid, sess) ==
  /\ pc[p] = "idle"
  /\ Started
  /\ LET c == NewCall("touch", sid, sess)
         ttl == getTTL(sess, NoSid)
     IN  IF ~ttl.ok
           THEN Done(p, Caught(c, "TypeError"))
         ELSE IF ~connected
           THEN Done(p, Caught(c, "NotConnected"))
         ELSE Await(p, "touchUpdate",
                    [c EXCEPT !.ttl = ttl.v, !.t = now, !.issued = {"touchUpdate"}])
  /\ UNCHANGED << connected, cfg, now, rows >>

\* A touch with set's live-row predicate: the effect of touch must tell it
\* from TouchRow.
TouchLiveRow(c) ==
  [i \in DOMAIN rows |->
     IF i = c.sid /\ rows[i].destroyedAt = NULL
       THEN [rows[i] EXCEPT !.expiredAt = c.t + c.ttl * 1000]
       ELSE rows[i]]

\* A touch that also clears destroyedAt, as a restore would: the lasting
\* effect of destroy must tell it from TouchRow.
TouchRowRestoring(c) ==
  [i \in DOMAIN rows |->
     IF i = c.sid
       THEN [rows[i] EXCEPT !.expiredAt = c.t + c.ttl * 1000, !.destroyedAt = NULL]
       ELSE rows[i]]

\* A touch that writes ttl * 1000 without Date.now(): the growth of
\* expiredAt must tell it from TouchRow.
TouchRowWithoutClock(c) ==
  [i \in DOMAIN rows |->
     IF i = c.sid THEN [rows[i] EXCEPT !.expiredAt = c.ttl * 1000] ELSE rows[i]]

\* The table after update({ expiredAt }).whereInIds([sid]).
TouchRow(c) ==
  [i \in DOMAIN rows |->
     IF i = c.sid THEN [rows[i] EXCEPT !.expiredAt = c.t + c.ttl * 1000] ELSE rows[i]]

\* touch: the update runs, or fails.
TouchUpdate(p) ==
  /\ pc[p] = "touchUpdate"
  /\ LET c == call[p] IN
       \/ Done(p, Caught(c, "Storage")) /\ UNCHANGED rows
       \/ rows' = TouchRow(c) /\ Done(p, Ok(c))
  /\ UNCHANGED << connected, cfg, now, calls >>

\* all(): the call builds the query.
AllCall(p) ==
  /\ pc[p] = "idle"
  /\ Started
  /\ LET c == NewCall("all", NoSid, EmptyObj) IN
       IF ~connected
         THEN Done(p, Caught(c, "NotConnected"))
         ELSE Await(p, "getMany", [c EXCEPT !.t = now, !.issued = {"getMany"}])
  /\ UNCHANGED << connected, cfg, now, rows >>

\* all(): getMany() answers, or fails.
GetMany(p) ==
  /\ pc[p] = "getMany"
  /\ LET c == call[p] IN
       \/ Done(p, Caught(c, "Storage"))
       \/ Done(p, [Ok(c) EXCEPT !.list =
                     { WithId(i, Parse(rows[i].json)) : i \in createQueryBuilder(c.t) }])
  /\ UNCHANGED << connected, cfg, now, rows, calls >>

\* ---------------------------------------------------------- specification
\* What caller p can do: start an operation, or have the repository run the
\* statement its operation awaits.
Ops(p) ==
  \/ \E sid \in Ids : GetCall(p, sid)
  \/ GetOne(p)
  \/ \E sid \in Ids, sess \in Sessions : SetCall(p, sid, sess)
  \/ CleanupSelect(p)
  \/ CleanupDelete(p)
  \/ FindOneOrFail(p)
  \/ Update(p)
  \/ Insert(p)
  \/ \E sids \in SUBSET Ids \ {{}} : DestroyCall(p, sids)
  \/ \E x \in Ids : SoftDelete(p, x)
  \/ \E sid \in Ids, sess \in Sessions : TouchCall(p, sid, sess)
  \/ TouchUpdate(p)
  \/ AllCall(p)
  \/ GetMany(p)

\* Operations of different callers interleave at their awaits.
Next ==
  \/ connect
  \/ Tick
  \/ \E p \in Procs : Ops(p)

Spec == Init /\ [][Next]_vars

\* A single caller, who starts an operation when its last one has ended.
SeqNext ==
  \/ connect
  \/ Tick
  \/ Ops(1)

SeqSpec == Init /\ [][SeqNext]_vars

\* ------------------------------------------------- the store in the long run
\* For what happens eventually the clock must not stop and the operations
\* are not counted.  Timestamps are kept relative to the clock: now stays
\* Past seconds after 0, and a second passing lowers every timestamp by one
\* second instead.  A timestamp that reaches 0 stays there: it is older than
\* every Date.now() a pending statement was built with, as the clock waits
\* for a statement whose Date.now() is about to reach 0.
Shift(t) == IF t >= 1000 THEN t - 1000 ELSE 0

\* The statements whose text holds a Date.now().
Timed == { "getOne", "getMany", "cleanupSelect", "cleanupDelete", "update",
           "insert", "touchUpdate" }

Advance ==
  /\ \A p \in Procs : pc[p] \in Timed => call[p].t >= 1000
  /\ rows' = [i \in DOMAIN rows |->
               [rows[i] EXCEPT !.expiredAt = Shift(@),
                               !.destroyedAt = IF @ = NULL THEN NULL ELSE Shift(@)]]
  /\ call' = [p \in Procs |-> [call[p] EXCEPT !.t = Shift(@)]]
  /\ res' = NoRes
  /\ UNCHANGED << connected, cfg, now, pc, calls >>

\* A store with cleanup enabled and a ttl of seconds, and hosts that pass
\* one kind of session.
LiveConfigs ==
  { c \in Configs : c.cleanupLimit > 0 /\ c.ttl.kind = "function" /\ ~c.onError }
    \cup { [c EXCEPT !.cleanupLimit = Cardinality(Ids)] :
             c \in { d \in Configs : d.cleanupLimit = 1 /\ d.ttl.kind = "function"
                                                        /\ ~d.onError } }

LiveSessions == { [cookie |-> EmptyObj, val |-> 1] }

LiveInit == Constructed(LiveConfigs, Past * 1000) /\ calls = Uncounted

LiveOps(p) ==
  \/ \E sid \in Ids : GetCall(p, sid)
  \/ GetOne(p)
  \/ \E sid \in Ids, sess \in LiveSessions : SetCall(p, sid, sess)
  \/ CleanupSelect(p)
  \/ CleanupDelete(p)
  \/ FindOneOrFail(p)
  \/ Update(p)
  \/ Insert(p)
  \/ \E sid \in Ids : DestroyCall(p, {sid})
  \/ \E x \in Ids : SoftDelete(p, x)
  \/ \E sid \in Ids, sess \in LiveSessions : TouchCall(p, sid, sess)
  \/ TouchUpdate(p)

LiveNext ==
  \/ connect
  \/ Advance
  \/ LiveOps(1)

\* The clock goes on, connect is called, every statement is run in the end,
\* set is called again and again, and cleanup's statements do not fail for
\* ever.
Fairness ==
  /\ WF_vars(connect)
  /\ WF_vars(Advance)
  /\ WF_vars(LiveOps(1) /\ pc[1] # "idle")
  /\ SF_vars(\E sid \in Ids, sess \in LiveSessions : SetCall(1, sid, sess))
  /\ SF_vars(CleanupSelect(1) /\ pc'[1] # "idle")
  /\ SF_vars(CleanupDelete(1) /\ pc'[1] # "idle")

LiveSpec == LiveInit /\ [][LiveNext]_vars /\ Fairness

\* ================================================================ claims
\* The get a caller would make in the current state, answered at once.
GetNow(sid) == GetAnswer([NewCall("get", sid, EmptyObj) EXCEPT !.t = now])

\* C1: a get that is answered reports the stored payload exactly when the
\* table holds a row for the id with destroyedAt null and expiredAt greater
\* than the call's Date.now(), and no data and no error otherwise; an all
\* that is answered reports exactly those rows, each with its id.
C1_ReadsReportVisibleRows ==
  [][\A p \in Procs :
       /\ (pc[p] = "getOne" /\ pc'[p] = "idle" /\ res'.err = "none") =>
            LET id == call[p].sid
                visible == /\ id \in DOMAIN rows
                           /\ rows[id].destroyedAt = NULL
                           /\ rows[id].expiredAt > call[p].t
            IN  /\ res'.cb = "ok"
                /\ res'.has = visible
                /\ visible => Stringify(res'.data) = rows[id].json
       /\ (pc[p] = "getMany" /\ pc'[p] = "idle" /\ res'.err = "none") =>
            LET visible == { i \in DOMAIN rows : /\ rows[i].destroyedAt = NULL
                                                /\ rows[i].expiredAt > call[p].t }
            IN  /\ res'.cb = "ok"
                /\ { e.id : e \in res'.list } = visible
                /\ Cardinality(res'.list) = Cardinality(visible)
                /\ \A e \in res'.list : Stringify(e) = rows[e.id].json
  ]_vars

\* C1 witness: a get was answered without data for an id whose row is in
\* the table (soft-deleted or expired).
C1_Witness ==
  /\ res.op = "get" /\ res.cb = "ok" /\ ~res.has
  /\ res.sid \in DOMAIN rows

\* C2: when a set has reported success and its TTL has not elapsed, a get of
\* the same id made next returns a payload equal to the data set.
C2_SetThenGet ==
  (res.op = "set" /\ res.cb = "ok" /\ now < res.t + res.ttl * 1000) =>
    (GetNow(res.sid).has /\ GetNow(res.sid).data = res.sess)

\* C3: when a set of an id whose row a destroy had soft-deleted has reported
\* success, the row is live, and a get made next (before the TTL elapses)
\* returns the data set.
C3_SetAfterDestroyRevives ==
  (res.op = "set" /\ res.cb = "ok" /\ res.pre = "destroyed") =>
    /\ res.sid \in DOMAIN rows
    /\ rows[res.sid].destroyedAt = NULL
    /\ now < res.t + res.ttl * 1000 =>
         (GetNow(res.sid).has /\ GetNow(res.sid).data = res.sess)

\* C4: a softDelete of destroy removes no row, changes no json and no
\* expiredAt, and changes no row of an id it was not given; when destroy
\* reports success the row of the id just soft-deleted is still there,
\* marked, and a get of it made next returns no data; and a soft-deleted row
\* stays in the table, soft-deleted and with its json, in every step that is
\* not a cleanup delete.
C4_DestroySoftDeletes ==
  [][/\ \A p \in Procs :
          (pc[p] = "softDelete" /\ call'[p] # call[p]) =>
            /\ DOMAIN rows' = DOMAIN rows
            /\ \A i \in DOMAIN rows :
                 /\ rows'[i].json = rows[i].json
                 /\ rows'[i].expiredAt = rows[i].expiredAt
                 /\ i \notin call[p].sids => rows'[i] = rows[i]
            /\ (pc'[p] = "idle" /\ res'.cb = "ok") =>
                 \A x \in call[p].pending \cap DOMAIN rows :
                   /\ rows'[x].destroyedAt # NULL
                   /\ ~GetNow(x).has'
     /\ \A i \in DOMAIN rows :
          rows[i].destroyedAt # NULL =>
            \/ /\ i \in DOMAIN rows'
               /\ rows'[i].destroyedAt # NULL
               /\ rows'[i].json = rows[i].json
            \/ \E q \in Procs : pc[q] = "cleanupDelete" /\ pc'[q] # "cleanupDelete"
  ]_vars

\* C4 witness: destroy has reported success for an id whose row is in the
\* table, unexpired, and soft-deleted.
C4_Witness ==
  /\ res.op = "destroy" /\ res.cb = "ok"
  /\ \E x \in res.sids :
       /\ x \in DOMAIN rows
       /\ rows[x].destroyedAt # NULL
       /\ rows[x].expiredAt > now

\* C5: a touch whose update ran sets expiredAt of the row of its id to the
\* call's Date.now() plus ttl * 1000 and changes nothing else: not the row's
\* json or destroyedAt, no other row, and not the set of rows; a touch that
\* failed changed nothing.
C5_TouchSetsOnlyExpiry ==
  [][\A p \in Procs :
       /\ (pc[p] = "touchUpdate" /\ pc'[p] = "idle" /\ res'.cb = "ok") =>
            /\ DOMAIN rows' = DOMAIN rows
            /\ \A i \in DOMAIN rows :
                 rows'[i] = IF i = call[p].sid
                              THEN [rows[i] EXCEPT
                                      !.expiredAt = call[p].t + call[p].ttl * 1000]
                              ELSE rows[i]
       /\ (pc[p] = "touchUpdate" /\ pc'[p] = "idle" /\ res'.cb = "err") => rows' = rows
  ]_vars

\* C5 witness: a touch has reported success for the id of a soft-deleted row,
\* whose expiredAt is the one the touch wrote.
C5_Witness ==
  /\ res.op = "touch" /\ res.cb = "ok"
  /\ res.sid \in DOMAIN rows
  /\ rows[res.sid].destroyedAt # NULL
  /\ rows[res.sid].expiredAt = res.t + res.ttl * 1000

\* C6: an operation that has reported while the store is not connected
\* reported a not-connected error, issued no statement, and the table is as
\* it was.
C6_NotConnected ==
  (~connected /\ res.op # "none") =>
    /\ res.err = "NotConnected" /\ res.cb = "err"
    /\ res.issued = {}
    /\ rows \in Tables

\* C7: every failure an operation reports went to the callback and to the
\* secondary channel: onError if configured, else "disconnect".
C7_FailuresReachBothChannels ==
  res.err # "none" =>
    /\ res.cb = "err"
    /\ res.chan = IF cfg.onError THEN "onError" ELSE "disconnect"

\* C8: with cleanupLimit = N > 0, rows leave the table only in the cleanup
\* delete of a set, once per call, and at most N of them, in both modes.
C8_CleanupAtMostLimit ==
  [][cfg.cleanupLimit > 0 =>
       LET removed == Cardinality(DOMAIN rows \ DOMAIN rows') IN
         /\ removed <= cfg.cleanupLimit
         /\ removed > 0 =>
              \E p \in Procs : /\ pc[p] = "cleanupDelete" /\ pc'[p] = "findOneOrFail"
                               /\ call[p].purged = 0
                               /\ call'[p].purged = removed
         /\ \A p \in Procs : call'[p].purged <= cfg.cleanupLimit
  ]_vars

\* C8 witness: a cleanup delete has removed cleanupLimit rows and a row that
\* its select matched is still in the table.
C8_Witness ==
  \E p \in Procs :
    /\ pc[p] = "findOneOrFail"
    /\ cfg.cleanupLimit > 0
    /\ call[p].purged = cfg.cleanupLimit
    /\ \E i \in DOMAIN rows : rows[i].expiredAt <= call[p].t

\* C9: with cleanupLimit 0 or not configured, no set awaits a cleanup select
\* or a cleanup delete and no row leaves the table, in both modes.
C9_NoCleanupWithoutLimit ==
  [][cfg.cleanupLimit \in {0, Undefined} =>
       /\ \A p \in Procs : pc'[p] \notin {"cleanupSelect", "cleanupDelete"}
       /\ \A p \in Procs : call'[p].issued \cap {"cleanupSelect", "cleanupDelete"} = {}
       /\ DOMAIN rows \subseteq DOMAIN rows'
  ]_vars

\* C9 witness: with cleanup disabled a set has reported success while the
\* table holds an expired row.
C9_Witness ==
  /\ cfg.cleanupLimit \in {0, Undefined}
  /\ res.op = "set" /\ res.cb = "ok"
  /\ \E i \in DOMAIN rows : rows[i].expiredAt <= res.t

TtlSid(op, sid) == IF op = "set" THEN sid ELSE NoSid

\* The number of whole seconds in ms milliseconds, said without division.
WholeSeconds(ms) == CHOOSE k \in 0 .. ms : k * 1000 <= ms /\ ms < (k + 1) * 1000

\* The ttl the resolution order gives an operation op(sid, sess).
ResolvedTtl(op, sid, sess) ==
  IF cfg.ttl.kind = "number" THEN cfg.ttl.n
  ELSE IF cfg.ttl.kind = "function" THEN ttlFunction(sess, TtlSid(op, sid))
  ELSE IF "maxAge" \in DOMAIN sess.cookie THEN WholeSeconds(sess.cookie.maxAge)
  ELSE 86400

\* C11: the ttl a set or a touch works with, while it awaits a statement and
\* when it reports, is the one the resolution order gives: the configured
\* number whatever the cookie says, else the configured function's result,
\* else the whole seconds of cookie.maxAge, else 86400.
C11_TtlResolutionOrder ==
  /\ \A p \in Procs :
       (pc[p] # "idle" /\ call[p].op \in {"set", "touch"}) =>
         call[p].ttl = ResolvedTtl(call[p].op, call[p].sid, call[p].sess)
  /\ (res.op \in {"set", "touch"} /\ res.cb = "ok") =>
       res.ttl = ResolvedTtl(res.op, res.sid, res.sess)

\* C11 witness: with a number configured, a set of a session whose cookie
\* has a maxAge has written a row that expires after the configured number
\* of seconds.
C11_Witness ==
  /\ cfg.ttl.kind = "number"
  /\ res.op = "set" /\ res.cb = "ok"
  /\ "cookie" \in DOMAIN res.sess /\ "maxAge" \in DOMAIN res.sess.cookie
  /\ res.sid \in DOMAIN rows
  /\ rows[res.sid].expiredAt = res.t + cfg.ttl.n * 1000

\* C12: with no ttl configured, a set or a touch of a connected store given
\* session data without cookie does not report a failure of its own making:
\* what it reports is success or a failure of the storage.
C12_AbsentCookieTolerated ==
  (/\ res.op \in {"set", "touch"}
   /\ connected
   /\ cfg.ttl.kind = "undefined"
   /\ "cookie" \notin DOMAIN res.sess) =>
     /\ res.err \in {"none", "Storage", "Duplicate"}
     /\ res.cb = "ok" => res.ttl = 86400

\* C13: no step lowers the expiredAt of a row that stays in the table.
C13_ExpiryNeverLowered ==
  [][\A i \in DOMAIN rows \cap DOMAIN rows' :
       rows'[i].expiredAt >= rows[i].expiredAt]_vars

\* C13 amended: with a number configured as ttl, no step lowers the
\* expiredAt of a row that stays in the table.
C13_ExpiryNeverLoweredFixedTtl ==
  [][cfg.ttl.kind = "number" =>
       \A i \in DOMAIN rows \cap DOMAIN rows' :
         rows'[i].expiredAt >= rows[i].expiredAt]_vars

\* C13 witness: with a number configured, a touch built after the clock
\* moved has written its expiredAt over the one the row was stored with.
C13_Witness ==
  /\ cfg.ttl.kind = "number"
  /\ res.op = "touch" /\ res.cb = "ok" /\ res.t > 0
  /\ res.sid \in DOMAIN rows
  /\ rows[res.sid].expiredAt = res.t + cfg.ttl.n * 1000
  /\ rows[res.sid].expiredAt > StoredRow.expiredAt

\* C14: a set that issued the update (its lookup found a row) issues no
\* insert, whatever became of the update.
C14_InsertOnlyWhenNotFound ==
  /\ \A p \in Procs : pc[p] = "insert" => "update" \notin call[p].issued
  /\ res.op = "set" => ~({"update", "insert"} \subseteq res.issued)

\* C15: when set's update runs, every soft-deleted row is left as it is, set
\* reports success, and if the row of set's id is soft-deleted nothing in
\* the table changes (zero rows affected); an update only writes json and
\* expiredAt of a live row of its id.
C15_UpdateSkipsSoftDeleted ==
  [][\A p \in Procs :
       (pc[p] = "update" /\ pc'[p] = "idle") =>
         /\ res'.op = "set" /\ res'.cb = "ok" /\ res'.err = "none"
         /\ DOMAIN rows' = DOMAIN rows
         /\ \A i \in DOMAIN rows :
              (rows[i].destroyedAt # NULL \/ i # call[p].sid) => rows'[i] = rows[i]
         /\ \A i \in DOMAIN rows : rows'[i].destroyedAt = rows[i].destroyedAt
  ]_vars

\* C15 witness: a set called on a live row has reported success, and the
\* row is soft-deleted and does not hold the json of the set: a softDelete
\* landed before the update ran.
C15_Witness ==
  /\ res.op = "set" /\ res.cb = "ok" /\ res.pre = "live"
  /\ "update" \in res.issued
  /\ res.sid \in DOMAIN rows
  /\ rows[res.sid].destroyedAt # NULL
  /\ rows[res.sid].json # Stringify(res.sess)

\* C16: a set called when the table held no row for its id does not report
\* a primary-key violation, whatever other sets of that id run beside it.
C16_ConcurrentSetsBothSucceed ==
  (res.op = "set" /\ res.pre = "absent") => res.err # "Duplicate"

\* C17: a set whose cleanup select or delete fails ends there: it reports
\* the failure through its callback, has issued no lookup, update or insert
\* and has deleted nothing, and the failing step changes no row; a set goes
\* on from its cleanup delete to its lookup only when the delete has run.
C17_CleanupFailureAbortsSet ==
  [][/\ \A p \in Procs :
       (pc[p] \in {"cleanupSelect", "cleanupDelete"} /\ call'[p] # call[p]
          /\ pc'[p] \notin {"cleanupDelete", "findOneOrFail"} ) =>
         /\ pc'[p] = "idle"
         /\ res'.op = "set" /\ res'.sid = call[p].sid
         /\ res'.cb = "err" /\ res'.err = "Storage"
         /\ res'.issued \subseteq {"cleanupSelect", "cleanupDelete"}
         /\ res'.purged = 0
         /\ rows' = rows
     /\ \A p \in Procs :
          (pc[p] = "cleanupDelete" /\ pc'[p] = "findOneOrFail") =>
            (DOMAIN rows \ DOMAIN rows') \in CleanupTargets(call[p])
  ]_vars

\* C17 witness: a set of an id that has a row reported the failure of its
\* cleanup delete.
C17_Witness ==
  /\ res.op = "set" /\ res.err = "Storage"
  /\ "cleanupDelete" \in res.issued
  /\ "findOneOrFail" \notin res.issued
  /\ res.sid \in DOMAIN rows

\* A row get and all would report at the current clock value.
Visible(i) ==
  /\ i \in DOMAIN rows
  /\ rows[i].destroyedAt = NULL
  /\ rows[i].expiredAt > now

\* C18: a row that leaves the table was not visible when the step that
\* removed it ran.
C18_CleanupSparesVisibleRows ==
  [][\A i \in DOMAIN rows \ DOMAIN rows' : ~Visible(i)]_vars

\* C19: when a set reports success while no row is soft-deleted and no
\* destroy is under way, the table holds a row for the id of the set.
C19_SuccessfulSetLeavesRow ==
  (/\ res.op = "set" /\ res.cb = "ok"
   /\ \A i \in DOMAIN rows : rows[i].destroyedAt = NULL
   /\ \A q \in Procs : call[q].op # "destroy") =>
     res.sid \in DOMAIN rows

\* C20: a row of which a get would report no data is given data for a get
\* only by a step of a set of its id.
C20_InvisibleStaysInvisible ==
  [][\A i \in DOMAIN rows :
       (~GetNow(i).has /\ GetNow(i).has') =>
         \E p \in Procs : /\ call[p].op = "set" /\ call[p].sid = i
                          /\ pc[p] # "idle" /\ call'[p] # call[p]
  ]_vars

\* C20 amended: no step makes a get report data for a soft-deleted row.
C20_SoftDeletedStaysInvisible ==
  [][\A i \in DOMAIN rows : rows[i].destroyedAt # NULL => ~GetNow(i).has']_vars

\* C20 witness: a touch has moved the expiredAt of a soft-deleted row ahead
\* of the clock, and a get of its id reports no data.
C20_Witness ==
  /\ res.op = "touch" /\ res.cb = "ok"
  /\ res.sid \in DOMAIN rows
  /\ rows[res.sid].destroyedAt # NULL
  /\ rows[res.sid].expiredAt > now
  /\ ~GetNow(res.sid).has

====
